---------------------------- MODULE Spec2Model ----------------------------
(***************************************************************************)
(* Model of start_services_v2.py: the starter of the local AI + Supabase   *)
(* stack.  Files are modelled by their text, a sequence of one-character   *)
(* strings (a few fixed literals of the source are one element each), so   *)
(* that the parsing, the substring search and the regular expressions of   *)
(* the source are computed on the text as the source computes them.        *)
(***************************************************************************)
EXTENDS Integers, Sequences, FiniteSets, TLC

VARIABLES
    pc,            \* position of main(): the step about to be executed
    args,          \* argparse result of the run
    log,           \* steps of main() begun in the run, in order
    last,          \* the external command issued last, with its outcome
    repo,          \* the supabase working copy
    rootEnv,       \* <root>/.env
    destEnv,       \* <root>/supabase/docker/.env
    settingsBase,  \* <root>/searxng/settings-base.yml
    settings,      \* <root>/searxng/settings.yml
    compose,       \* <root>/docker-compose.yml
    searxng,       \* the searxng container: running, and its marker file
    clock,         \* wait_for_postgres: time.time() - start
    ready,         \* result of wait_for_postgres in this run
    slept,         \* the fallback sleep of main() happened in this run
    started,       \* composition files of the startup commands that succeeded
    wrote,         \* the files written by the last step
    orig,          \* the file a component was first called on (history)
    hist,          \* one record per call of a component (history)
    nsecrets       \* number of secret substitutions performed (history)

vars == <<pc, args, log, last, repo, rootEnv, destEnv, settingsBase,
          settings, compose, searxng, clock, ready, slept, started, wrote,
          orig, hist, nsecrets>>

-----------------------------------------------------------------------------
(* Text helpers *)

NL == "\n"
SP == " "

Absent == [exists |-> FALSE, text |-> <<>>]
File(t) == [exists |-> TRUE, text |-> t]

RECURSIVE Concat(_)
Concat(ss) == IF ss = <<>> THEN <<>> ELSE Head(ss) \o Concat(Tail(ss))

\* s[i..] starts with p
StartsAt(s, i, p) ==
    /\ i + Len(p) - 1 <= Len(s)
    /\ \A j \in 1..Len(p) : s[i + j - 1] = p[j]

\* Python: p in s
Contains(s, p) == \E i \in 1..(Len(s) + 1) : StartsAt(s, i, p)

\* Python: s.replace(p, r), leftmost non-overlapping occurrences (p non-empty)
RECURSIVE ReplaceFrom(_, _, _, _)
ReplaceFrom(s, i, p, r) ==
    IF i > Len(s) THEN <<>>
    ELSE IF StartsAt(s, i, p) THEN r \o ReplaceFrom(s, i + Len(p), p, r)
    ELSE <<s[i]>> \o ReplaceFrom(s, i + 1, p, r)

Replace(s, p, r) == ReplaceFrom(s, 1, p, r)

IsSpace(c) == c \in {SP, NL}

\* index of the first non-whitespace element at or after i (Len(s)+1 if none):
\* where a greedy \s* starting at i stops
RECURSIVE SkipSpace(_, _)
SkipSpace(s, i) ==
    IF i <= Len(s) /\ IsSpace(s[i]) THEN SkipSpace(s, i + 1) ELSE i

-----------------------------------------------------------------------------
(* Environment Merger: prepare_supabase_env *)

\* index of the first element of s equal to c, or 0
RECURSIVE IndexFrom(_, _, _)
IndexFrom(s, c, i) ==
    IF i > Len(s) THEN 0 ELSE IF s[i] = c THEN i ELSE IndexFrom(s, c, i + 1)

IndexOf(s, c) == IndexFrom(s, c, 1)

\* "for line in f": the lines of the text, each with its trailing newline
\* (the last one without it when the text does not end in a newline)
RECURSIVE SplitLines(_)
SplitLines(t) ==
    IF t = <<>> THEN <<>>
    ELSE LET n == IF IndexOf(t, NL) = 0 THEN Len(t) ELSE IndexOf(t, NL)
         IN  <<SubSeq(t, 1, n)>> \o SplitLines(SubSeq(t, n + 1, Len(t)))

\* line.strip().startswith("#")
StripStartsWithHash(line) ==
    LET i == SkipSpace(line, 1) IN i <= Len(line) /\ line[i] = "#"

\* "=" in line and not line.strip().startswith("#")
IsEntry(line) == IndexOf(line, "=") > 0 /\ ~StripStartsWithHash(line)

\* line.rstrip("\n")
RECURSIVE RStripNL(_)
RStripNL(line) ==
    IF line # <<>> /\ line[Len(line)] = NL
    THEN RStripNL(SubSeq(line, 1, Len(line) - 1)) ELSE line

\* k, v = line.rstrip("\n").split("=", 1)
Key(line) == SubSeq(RStripNL(line), 1, IndexOf(line, "=") - 1)
Value(line) ==
    LET l == RStripNL(line) IN SubSeq(l, IndexOf(l, "=") + 1, Len(l))

EntryLines(text) == SelectSeq(SplitLines(text), IsEntry)

\* the dict built by the loop "existing[k] = v": the last entry of a key wins
Existing(text) ==
    LET es == EntryLines(text)
        ks == {Key(es[i]) : i \in 1..Len(es)}
        lastOf(k) == CHOOSE i \in 1..Len(es) :
                      /\ Key(es[i]) = k
                      /\ \A j \in (i + 1)..Len(es) : Key(es[j]) # k
    IN  [k \in ks |-> Value(es[lastOf(k)])]

\* the list "additions": the source's entry lines whose key is not in existing
AdditionsMutant(srcText, existing) == EntryLines(srcText)

Additions(srcText, existing) ==
    LET new(line) == IsEntry(line) /\ Key(line) \notin DOMAIN existing
    IN  SelectSeq(SplitLines(srcText), new)

AddedMarker == <<NL, "#", SP, "Added from root .env", NL>>

\* the text appended to the destination: f.write(marker); f.writelines(additions)
AppendedMutant(additions) == Concat(additions)

Appended(additions) == AddedMarker \o Concat(additions)

\* prepare_supabase_env on the two files: the new destination and whether the
\* destination was written
PrepareSupabaseEnv(src, dest) ==
    IF ~src.exists THEN [dest |-> dest, wrote |-> FALSE]
    ELSE IF ~dest.exists THEN [dest |-> File(src.text), wrote |-> TRUE]
    ELSE LET additions == Additions(src.text, Existing(dest.text))
         IN  IF additions # <<>>
             THEN [dest |-> File(dest.text \o Appended(additions)), wrote |-> TRUE]
             ELSE [dest |-> dest, wrote |-> FALSE]

-----------------------------------------------------------------------------
(* Secret Provisioner: generate_searxng_secret_key *)

\* stands for the literal "ultrasecretkey": neither its first nor its last
\* character is a hexadecimal digit
Placeholder == <<"u", "y">>

\* the digits token_hex draws from (two of the sixteen)
HexDigits == {"a", "b"}

\* number of digits of a generated secret: stands for token_hex(32)'s 64;
\* as in the source, a secret is no shorter than the placeholder less one
SecretLen == 1

RECURSIVE SeqsOfLen(_, _)
SeqsOfLen(S, n) ==
    IF n = 0 THEN {<<>>}
    ELSE {<<c>> \o t : c \in S, t \in SeqsOfLen(S, n - 1)}

\* the values token_hex(32) can return
Secrets == SeqsOfLen(HexDigits, SecretLen)

\* the text written back: text.replace("ultrasecretkey", secret)
SubstituteMutant(text, secret) ==
    LET i == CHOOSE j \in 1..Len(text) : StartsAt(text, j, Placeholder)
    IN  SubSeq(text, 1, i - 1) \o secret
          \o SubSeq(text, i + Len(Placeholder), Len(text))

Substitute(text, secret) == Replace(text, Placeholder, secret)

\* a provisioner that substitutes only in the working file it has just
\* created from the template
GenerateSecretMutant(base, work, secret) ==
    IF ~base.exists \/ work.exists
    THEN [settings |-> work, created |-> FALSE, replaced |-> FALSE]
    ELSE [settings |-> File(Substitute(base.text, secret)),
          created |-> TRUE, replaced |-> Contains(base.text, Placeholder)]

\* generate_searxng_secret_key on the two files with the secret token_hex
\* returns: the new working file, whether it was created, whether the
\* placeholder was substituted
GenerateSecret(base, work, secret) ==
    IF ~base.exists
    THEN [settings |-> work, created |-> FALSE, replaced |-> FALSE]
    ELSE LET copied == IF work.exists THEN work ELSE File(base.text)
         IN  IF ~Contains(copied.text, Placeholder)
             THEN [settings |-> copied, created |-> ~work.exists,
                   replaced |-> FALSE]
             ELSE [settings |-> File(Substitute(copied.text, secret)),
                   created |-> ~work.exists, replaced |-> TRUE]

-----------------------------------------------------------------------------
(* Capability Toggle Manager: adjust_cap_drop_first_run *)

\* fixed literals of the composition document, one element each
CAPDROP == "cap_drop:"
ALL == "- ALL"
MARK == "temporarily disabled first run"

\* the replacement strings of the two re.sub calls
DisabledText == <<"#", SP, CAPDROP, SP, ALL, SP, SP, "#", SP, MARK>>
EnabledText == <<CAPDROP, SP, ALL>>

\* ^ under re.MULTILINE: the start of the text or just after a newline
LineStart(s, i) == i = 1 \/ (i - 1 <= Len(s) /\ s[i - 1] = NL)

\* \s*cap_drop:\s*- ALL at i: the index of the last element matched, or 0
DeclEnd(s, i) ==
    LET j == SkipSpace(s, i)
        k == SkipSpace(s, j + 1)
    IN  IF j <= Len(s) /\ s[j] = CAPDROP /\ k <= Len(s) /\ s[k] = ALL
        THEN k ELSE 0

\* active_pattern = (^\s*cap_drop:\s*- ALL), re.MULTILINE, matched at i
ActiveEnd(s, i) == IF LineStart(s, i) THEN DeclEnd(s, i) ELSE 0

\* commented_pattern = #\s*cap_drop:\s*- ALL, matched at i
CommentedEnd(s, i) ==
    IF i <= Len(s) /\ s[i] = "#" THEN DeclEnd(s, i + 1) ELSE 0

\* pattern.search(content)
ActiveSearch(s) == \E i \in 1..Len(s) : ActiveEnd(s, i) > 0
CommentedSearch(s) == \E i \in 1..Len(s) : CommentedEnd(s, i) > 0

\* pattern.sub(replacement, content): every leftmost non-overlapping match
RECURSIVE ActiveSub(_, _, _)
ActiveSub(s, i, r) ==
    IF i > Len(s) THEN <<>>
    ELSE IF ActiveEnd(s, i) > 0 THEN r \o ActiveSub(s, ActiveEnd(s, i) + 1, r)
    ELSE <<s[i]>> \o ActiveSub(s, i + 1, r)

RECURSIVE CommentedSub(_, _, _)
CommentedSub(s, i, r) ==
    IF i > Len(s) THEN <<>>
    ELSE IF CommentedEnd(s, i) > 0
         THEN r \o CommentedSub(s, CommentedEnd(s, i) + 1, r)
    ELSE <<s[i]>> \o CommentedSub(s, i + 1, r)

\* containers = [c.strip() for c in ps.stdout.splitlines() if c.strip()]
\* with ps.stdout given as its lines
Containers(psLines) == SelectSeq(psLines, LAMBDA c : c # "")

\* the outputs of the in-container probe: the two echoes, or nothing when the
\* docker exec itself fails
ProbeOutputs == {<<"found", NL>>, <<"missing", NL>>, <<>>}

\* first_run as lines 146-153 compute it
FirstRun(psLines, probeOut) ==
    IF Containers(psLines) # <<>> THEN Contains(probeOut, <<"missing">>)
    ELSE TRUE

\* lines 155-166: the new content and the flag "modified"
AdjustContent(first_run, content) ==
    IF first_run /\ ActiveSearch(content)
    THEN [content |-> ActiveSub(content, 1, DisabledText), modified |-> TRUE]
    ELSE IF ~first_run /\ CommentedSearch(content)
    THEN [content |-> CommentedSub(content, 1, EnabledText), modified |-> TRUE]
    ELSE [content |-> content, modified |-> FALSE]

\* adjust_cap_drop_first_run on the document, given the two docker outputs
AdjustCapDrop(doc, psLines, probeOut) ==
    IF ~doc.exists THEN [compose |-> doc, wrote |-> FALSE]
    ELSE LET r == AdjustContent(FirstRun(psLines, probeOut), doc.text)
         IN  [compose |-> IF r.modified THEN File(r.content) ELSE doc,
              wrote |-> r.modified]

-----------------------------------------------------------------------------
(* Composition Command Builder *)

PROJECT_NAME == "localai"

SupabaseFile == "supabase/docker/docker-compose.yml"
LocalFile == "docker-compose.yml"
PrivateOverride == "docker-compose.override.private.yml"
PublicOverride == "docker-compose.override.public.yml"
PublicSupabaseOverride == "docker-compose.override.public.supabase.yml"

Profiles == {"cpu", "gpu-nvidia", "gpu-amd", "none"}
Environments == {"private", "public"}

ComposeBase == <<"docker", "compose", "-p", PROJECT_NAME>>

\* compose_down's argument list
ComposeDownCmd(profile, environment) ==
    ComposeBase
      \o (IF profile # "none" THEN <<"--profile", profile>> ELSE <<>>)
      \o <<"-f", SupabaseFile, "-f", LocalFile>>
      \o (IF environment = "private" THEN <<"-f", PrivateOverride>>
          ELSE IF environment = "public"
          THEN <<"-f", PublicOverride, "-f", PublicSupabaseOverride>>
          ELSE <<>>)
      \o <<"down", "--remove-orphans">>

\* compose_up_supabase's argument list
ComposeUpSupabaseCmd(environment) ==
    ComposeBase \o <<"-f", SupabaseFile>>
      \o (IF environment = "public" THEN <<"-f", PublicSupabaseOverride>>
          ELSE <<>>)
      \o <<"up", "-d">>

\* the local startup built the way the teardown is: the profile filter first
\* and both public overrides
ComposeUpLocalCmdMutant(profile, environment) ==
    ComposeBase
      \o (IF profile # "none" THEN <<"--profile", profile>> ELSE <<>>)
      \o <<"-f", LocalFile>>
      \o (IF environment = "private" THEN <<"-f", PrivateOverride>>
          ELSE <<"-f", PublicOverride, "-f", PublicSupabaseOverride>>)
      \o <<"up", "-d">>

\* compose_up_local_ai's argument list
ComposeUpLocalCmd(profile, environment) ==
    ComposeBase \o <<"-f", LocalFile>>
      \o (IF environment = "private" THEN <<"-f", PrivateOverride>>
          ELSE IF environment = "public" THEN <<"-f", PublicOverride>>
          ELSE <<>>)
      \o (IF profile # "none" THEN <<"--profile", profile>> ELSE <<>>)
      \o <<"up", "-d">>

\* the composition files an argument list references: the arguments after -f
FilesOf(cmd) == {cmd[i + 1] : i \in {j \in 1..(Len(cmd) - 1) : cmd[j] = "-f"}}

-----------------------------------------------------------------------------
(* Readiness Prober and Orchestration Controller *)

MaxWait == 1          \* largest --wait-seconds tried
PgTimeout == 4        \* wait_for_postgres's timeout (default 120); the largest tried
ConnectTimeout == 2   \* socket.create_connection(..., timeout=2)
PollInterval == 2     \* time.sleep(2)

Args == [profile : Profiles, environment : Environments,
         skip_clone : BOOLEAN, no_cap_adjust : BOOLEAN,
         wait_seconds : 0..MaxWait]

\* the steps of main() in the order of lines 230-249
MainOrder == <<"ensure", "sync", "env", "secret", "cap", "down",
               "up_supabase", "probe", "up_local", "done">>

StepIndex(step) == CHOOSE i \in 1..Len(MainOrder) : MainOrder[i] = step

\* the step main() executes after `step` has returned
NextStepMutant(step, a) ==
    CASE step = "ensure" -> IF a.skip_clone THEN "env" ELSE "sync"
      [] step = "secret" -> IF a.no_cap_adjust THEN "up_supabase" ELSE "cap"
      [] step = "cap" -> "up_supabase"
      [] step = "up_supabase" -> "down"
      [] step = "down" -> "probe"
      [] OTHER -> MainOrder[StepIndex(step) + 1]

NextStep(step, a) ==
    CASE step = "ensure" -> IF a.skip_clone THEN "env" ELSE "sync"
      [] step = "secret" -> IF a.no_cap_adjust THEN "down" ELSE "cap"
      [] OTHER -> MainOrder[StepIndex(step) + 1]

\* run_command: the command returned normally (TRUE) or raised (FALSE)
RunCommandMutant(ok, allow_fail) == TRUE

RunCommandStrict(ok, allow_fail) == ok

RunCommand(ok, allow_fail) == ok \/ allow_fail

\* line 244: the fallback sleep is taken
FallbackSleepMutant(isReady, wait_seconds) == wait_seconds > 0

FallbackSleep(isReady, wait_seconds) == ~isReady /\ wait_seconds > 0

\* the working copy: the directory exists, sparse-checkout is initialised and
\* set to docker/, the branch checked out, and the local variable `branch`
NoRepo == [exists |-> FALSE, sparse_init |-> FALSE, sparse_set |-> FALSE,
           branch |-> "none", resolved |-> "none"]
FullRepo == [exists |-> TRUE, sparse_init |-> TRUE, sparse_set |-> TRUE,
             branch |-> "master", resolved |-> "none"]

\* supabase/docker exists in the working copy: a branch has been checked out
DockerDir(r) == r.exists /\ r.branch # "none"

\* an external command as issued: what it is, its arguments, whether it
\* succeeded, and how it was run: through run_command (check=True) or by a bare
\* subprocess.run, and with which allow_fail
Cmd(kind, argv, ok, checked, allow_fail) ==
    [kind |-> kind, argv |-> argv, ok |-> ok, checked |-> checked,
     allow_fail |-> allow_fail]

NoCmd == Cmd("none", <<>>, TRUE, FALSE, FALSE)

fsVars == <<rootEnv, destEnv, settingsBase, settings, compose>>
probeVars == <<clock, ready, slept>>
histVars == <<orig, hist, nsecrets>>

DefaultArgs == [profile |-> "cpu", environment |-> "private",
                skip_clone |-> FALSE, no_cap_adjust |-> FALSE,
                wait_seconds |-> 0]

\* main() is started: argparse, line 227
StartRun ==
    /\ pc = "idle"
    /\ \E a \in Args : args' = a
    /\ pc' = "ensure"
    /\ UNCHANGED <<log, last, repo, fsVars, searxng, probeVars, started, wrote,
                   histVars>>

\* ensure_binaries: sys.exit(1) when a tool or the compose plugin is missing
EnsureBinaries ==
    /\ pc = "ensure"
    /\ \E ok \in BOOLEAN :
         pc' = IF ok THEN NextStep("ensure", args) ELSE "aborted"
    /\ log' = Append(log, "ensure")
    /\ wrote' = {}
    /\ UNCHANGED <<args, last, repo, fsVars, searxng, probeVars, started,
                   histVars>>

\* a command of clone_or_update_supabase issued through run_command; cloned
\* is the working copy the command leaves when it succeeds
GitStep(at, kind, argv, allow_fail, after, cloned) ==
    /\ pc = at
    /\ \E ok \in BOOLEAN :
         /\ last' = Cmd(kind, argv, ok, TRUE, allow_fail)
         /\ repo' = IF ok THEN cloned ELSE repo
         /\ pc' = IF RunCommand(ok, allow_fail) THEN after ELSE "aborted"
    /\ log' = IF at = "sync" THEN Append(log, "sync") ELSE log
    /\ wrote' = {}
    /\ UNCHANGED <<args, fsVars, searxng, probeVars, started, histVars>>

\* lines 75-78
GitClone ==
    /\ ~repo.exists
    /\ GitStep("sync", "clone",
               <<"git", "clone", "--filter=blob:none", "--no-checkout",
                 "https://github.com/supabase/supabase.git", "supabase">>,
               FALSE, "sync_resolve_master",
               [repo EXCEPT !.exists = TRUE])

\* resolve_supabase_branch: one git ls-remote per iteration of the loop; it
\* prints the branch, prints nothing, or fails (printing nothing)
LsRemoteOutcomes == {"found", "empty", "failed"}

LsRemote(at, branch, notFound) ==
    /\ pc = at
    /\ \E out \in LsRemoteOutcomes :
         /\ last' = Cmd("ls_remote",
                        <<"git", "ls-remote", "--heads",
                          "https://github.com/supabase/supabase.git", branch>>,
                        out # "failed", FALSE, FALSE)
         /\ repo' = [repo EXCEPT !.resolved =
                                     IF out = "found" THEN branch ELSE @]
         /\ pc' = IF out = "found" THEN "sync_sparse_init" ELSE notFound
    /\ wrote' = {}
    /\ UNCHANGED <<args, log, fsVars, searxng, probeVars, started, histVars>>

\* lines 61-67, branch = "master"
LsRemoteMaster == LsRemote("sync_resolve_master", "master", "sync_resolve_main")

\* lines 61-69, branch = "main": sys.exit(1) when it is not found either
LsRemoteMain == LsRemote("sync_resolve_main", "main", "aborted")

\* line 80
SparseInit ==
    GitStep("sync_sparse_init", "sparse_init",
            <<"git", "sparse-checkout", "init", "--cone">>, FALSE,
            "sync_sparse_set", [repo EXCEPT !.sparse_init = TRUE])

\* line 81
SparseSet ==
    GitStep("sync_sparse_set", "sparse_set",
            <<"git", "sparse-checkout", "set", "docker">>, FALSE,
            "sync_checkout", [repo EXCEPT !.sparse_set = TRUE])

\* line 82
GitCheckout ==
    GitStep("sync_checkout", "checkout", <<"git", "checkout", repo.resolved>>,
            FALSE, NextStep("sync", args),
            [repo EXCEPT !.branch = repo.resolved])

\* line 85
GitFetch ==
    /\ repo.exists
    /\ GitStep("sync", "fetch", <<"git", "fetch", "--prune">>, TRUE,
               "sync_pull", repo)

\* line 86
GitPull ==
    GitStep("sync_pull", "pull", <<"git", "pull", "--ff-only">>, FALSE,
            NextStep("sync", args), repo)

\* main() line 234.  shutil.copyfile raises when supabase/docker does not
\* exist, which ends the run.
EnvStep ==
    /\ pc = "env"
    /\ log' = Append(log, "env")
    /\ IF rootEnv.exists /\ ~destEnv.exists /\ ~DockerDir(repo)
       THEN /\ pc' = "aborted"
            /\ wrote' = {}
            /\ UNCHANGED destEnv
       ELSE LET r == PrepareSupabaseEnv(rootEnv, destEnv)
            IN  /\ destEnv' = r.dest
                /\ wrote' = IF r.wrote THEN {"destEnv"} ELSE {}
                /\ pc' = NextStep("env", args)
    /\ UNCHANGED <<args, last, repo, rootEnv, settingsBase, settings,
                   compose, searxng, probeVars, started, histVars>>

\* main() line 235
SecretStep ==
    /\ pc = "secret"
    /\ log' = Append(log, "secret")
    /\ \E secret \in Secrets :
         LET r == GenerateSecret(settingsBase, settings, secret)
         IN  /\ settings' = r.settings
             /\ wrote' = IF r.created \/ r.replaced THEN {"settings"} ELSE {}
             /\ nsecrets' = nsecrets + (IF r.replaced THEN 1 ELSE 0)
    /\ pc' = NextStep("secret", args)
    /\ UNCHANGED <<args, last, repo, rootEnv, destEnv, settingsBase,
                   compose, searxng, probeVars, started, orig, hist>>

DockerPs(ok) ==
    Cmd("docker_ps",
        <<"docker", "ps", "--filter", "name=searxng", "--format", "{{.Names}}">>,
        ok, FALSE, FALSE)

DockerExec(name, ok) ==
    Cmd("docker_exec", <<"docker", "exec", name, "sh", "-c">>, ok, FALSE, FALSE)

\* what "docker ps" prints: the running container's name, nothing when there is
\* none or the command fails
PsLines(c, ok) == IF ok /\ c.running THEN <<"searxng">> ELSE <<>>

\* what the in-container test prints
ProbeOut(c, ok) ==
    IF ~ok THEN <<>>
    ELSE IF c.booted THEN <<"found", NL>> ELSE <<"missing", NL>>

\* adjust_cap_drop_first_run on the current deployment, the two docker
\* commands succeeding or not
CapAdjust(psOk, execOk) ==
    LET ps == PsLines(searxng, psOk)
        out == ProbeOut(searxng, execOk)
        r == AdjustCapDrop(compose, ps, out)
    IN  /\ compose' = r.compose
        /\ wrote' = IF r.wrote THEN {"compose"} ELSE {}
        /\ last' = IF ~compose.exists THEN last
                   ELSE IF Containers(ps) # <<>>
                   THEN DockerExec(Containers(ps)[1], execOk)
                   ELSE DockerPs(psOk)

\* main() lines 236-237
CapStep ==
    /\ pc = "cap"
    /\ log' = Append(log, "cap")
    /\ \E psOk \in BOOLEAN, execOk \in BOOLEAN : CapAdjust(psOk, execOk)
    /\ pc' = NextStep("cap", args)
    /\ UNCHANGED <<args, repo, rootEnv, destEnv, settingsBase, settings,
                   searxng, probeVars, started, histVars>>

\* a docker compose command of main() issued through run_command; running
\* tells whether the searxng container runs once the command has succeeded,
\* up whether the command starts services
ComposeStep(at, argv, allow_fail, after, running, up) ==
    /\ pc = at
    /\ log' = Append(log, at)
    /\ \E ok \in BOOLEAN :
         /\ last' = Cmd(at, argv, ok, TRUE, allow_fail)
         /\ searxng' = IF ok THEN [searxng EXCEPT !.running = running]
                       ELSE searxng
         /\ started' = IF ok /\ up THEN started \cup FilesOf(argv) ELSE started
         /\ pc' = IF RunCommand(ok, allow_fail) THEN after ELSE "aborted"
    /\ wrote' = {}
    /\ UNCHANGED <<args, repo, fsVars, probeVars, histVars>>

\* main() line 239: compose_down
DownStep ==
    ComposeStep("down", ComposeDownCmd(args.profile, args.environment), TRUE,
                NextStep("down", args), FALSE, FALSE)

\* main() line 240: compose_up_supabase
UpSupabaseStep ==
    ComposeStep("up_supabase", ComposeUpSupabaseCmd(args.environment), FALSE,
                NextStep("up_supabase", args), searxng.running, TRUE)

\* main() line 248: compose_up_local_ai; the searxng service belongs to the
\* local composition file
UpLocalStep ==
    ComposeStep("up_local", ComposeUpLocalCmd(args.profile, args.environment),
                FALSE, NextStep("up_local", args), TRUE, TRUE)

\* wait_for_postgres has returned r at time t; main() lines 243-246
ProbeReturn(r, t) ==
    /\ ready' = r
    /\ clock' = t
    /\ slept' = FallbackSleep(r, args.wait_seconds)
    /\ pc' = NextStep("probe", args)

ProbeFrame ==
    /\ log' = IF log # <<>> /\ log[Len(log)] = "probe" THEN log
              ELSE Append(log, "probe")
    /\ wrote' = {}
    /\ UNCHANGED <<args, last, repo, fsVars, searxng, started, histVars>>

\* the loop entered once more at the very moment the time is up
ProbeConnectFailLate(timeout) ==
    /\ pc = "probe"
    /\ clock <= timeout
    /\ \E d \in 0..ConnectTimeout : clock' = clock + d + PollInterval
    /\ UNCHANGED <<pc, ready, slept>>
    /\ ProbeFrame

\* one iteration of the loop whose connect raises OSError after d, then sleeps
ProbeConnectFailAt(timeout) ==
    /\ pc = "probe"
    /\ clock < timeout
    /\ \E d \in 0..ConnectTimeout : clock' = clock + d + PollInterval
    /\ UNCHANGED <<pc, ready, slept>>
    /\ ProbeFrame

\* the iteration whose connect succeeds after d
ProbeConnectOkAt(timeout) ==
    /\ pc = "probe"
    /\ clock < timeout
    /\ \E d \in 0..ConnectTimeout : ProbeReturn(TRUE, clock + d)
    /\ ProbeFrame

\* the loop condition fails: lines 216-217
ProbeTimedOutAt(timeout) ==
    /\ pc = "probe"
    /\ clock >= timeout
    /\ ProbeReturn(FALSE, clock)
    /\ ProbeFrame

\* main() line 243 calls wait_for_postgres with the default timeout
ProbeConnectFail == ProbeConnectFailAt(PgTimeout)
ProbeConnectOk == ProbeConnectOkAt(PgTimeout)
ProbeTimedOut == ProbeTimedOutAt(PgTimeout)

-----------------------------------------------------------------------------
(* The deployment main() is run on *)

\* a root .env, and a supabase/docker/.env that already defines one of its keys
RootEnvText == <<"A", "=", "1", NL, "B", "=", "1", NL>>
DestEnvText == <<"A", "=", "2", NL>>

\* a settings template holding the placeholder
TemplateText == <<"x", SP>> \o Placeholder \o <<NL>>

\* a composition document with the declaration as docker-compose.yml writes
\* it: indented, the list item on the following line
ComposeText == <<"x", NL, SP, SP, CAPDROP, NL, SP, SP, SP, ALL, NL>>

Init ==
    /\ pc = "idle"
    /\ args = DefaultArgs
    /\ log = <<>>
    /\ last = NoCmd
    /\ repo \in {NoRepo, FullRepo}
    /\ rootEnv \in {Absent, File(RootEnvText)}
    /\ destEnv \in {Absent} \cup
                   (IF DockerDir(repo) THEN {File(DestEnvText)} ELSE {})
    /\ settingsBase \in {Absent, File(TemplateText)}
    /\ settings \in {Absent, File(TemplateText)}
    /\ compose \in {Absent, File(ComposeText)}
    /\ searxng = [running |-> FALSE, booted |-> FALSE]
    /\ clock = 0 /\ ready = FALSE /\ slept = FALSE
    /\ started = {}
    /\ wrote = {}
    /\ orig = compose
    /\ hist = <<>>
    /\ nsecrets = 0

Next ==
    \/ StartRun
    \/ EnsureBinaries
    \/ GitClone
    \/ LsRemoteMaster
    \/ LsRemoteMain
    \/ SparseInit
    \/ SparseSet
    \/ GitCheckout
    \/ GitFetch
    \/ GitPull
    \/ EnvStep
    \/ SecretStep
    \/ CapStep
    \/ DownStep
    \/ UpSupabaseStep
    \/ ProbeConnectFail
    \/ ProbeConnectOk
    \/ ProbeTimedOut
    \/ UpLocalStep

Spec == Init /\ [][Next]_vars

-----------------------------------------------------------------------------
(* Properties of the Orchestration Controller, checked under Spec *)

Range(q) == {q[i] : i \in 1..Len(q)}

\* the step of main() a position belongs to
StepOf(p) ==
    IF p \in Range(MainOrder) THEN p
    ELSE IF p \in {"sync_resolve_master", "sync_resolve_main",
                   "sync_sparse_init", "sync_sparse_set", "sync_checkout",
                   "sync_pull"} THEN "sync"
    ELSE "none"

\* the steps a complete run with arguments a goes through
FullLog(a) ==
    LET runs(step) == /\ step # "done"
                      /\ (step = "sync" => ~a.skip_clone)
                      /\ (step = "cap" => ~a.no_cap_adjust)
    IN  SelectSeq(MainOrder, runs)

\* C1: the steps of a run begin in the fixed order sync, env merge, secret
\* provisioning, capability adjustment, teardown, dependency startup,
\* readiness probe, local startup, each at most once and each after the
\* previous one has returned; a complete run has gone through all of them
\* (less the two the flags skip); local startup is issued only after dependency
\* startup has succeeded, and dependency startup only after teardown was issued.
C1_StepOrder ==
    /\ \A i \in 1..(Len(log) - 1) : StepIndex(log[i]) < StepIndex(log[i + 1])
    /\ StepOf(pc) # "none" /\ log # <<>>
         => StepIndex(log[Len(log)]) <= StepIndex(StepOf(pc))
    /\ pc = "done" => log = FullLog(args)
    /\ "up_local" \in Range(log)
         => /\ "up_supabase" \in Range(log)
            /\ FilesOf(ComposeUpSupabaseCmd(args.environment)) \subseteq started
    /\ "up_supabase" \in Range(log) => "down" \in Range(log)

C1_Witness ==
    /\ pc = "done"
    /\ ~args.skip_clone /\ ~args.no_cap_adjust
    /\ Len(log) = 9

\* a command that raised out of run_command
Fatal(c) == c.checked /\ ~c.allow_fail /\ ~c.ok

\* C2 as stated: a failure of any external command other than the teardown
\* command aborts the run.
C2_AnyFailureAborts ==
    (last.kind \notin {"none", "down"} /\ ~last.ok) => pc = "aborted"

\* C2, amended: a failure of a command run through run_command without
\* allow_fail (clone, sparse-checkout init and set, checkout, pull, the two
\* startup commands) ends the run: the step that issued it leaves main() in
\* "aborted", from where no step is taken, so nothing is retried and no later
\* step runs.  The fetch is run with allow_fail=True: whatever its result, the
\* pull follows.
C2_FatalFailureAborts ==
    [][/\ pc # "aborted"
       /\ (last' # last /\ Fatal(last')) => pc' = "aborted"
       /\ (last' # last /\ last'.kind = "fetch") => pc' = "sync_pull"]_vars

C2_Witness ==
    /\ pc = "aborted"
    /\ last.kind = "pull" /\ ~last.ok
    /\ log = <<"ensure", "sync">>

\* C9: once wait_for_postgres has returned, with either result, main() goes on
\* to local startup with the same command, and only that command's failure can
\* end the run; the fallback sleep is taken only after a probe that returned
\* false and with --wait-seconds greater than zero.
C9_TimeoutNotFatal ==
    /\ ("probe" \in Range(log) /\ pc # "probe")
         => /\ pc \in {"up_local", "done", "aborted"}
            /\ pc # "up_local"
                 => /\ last.kind = "up_local"
                    /\ last.argv = ComposeUpLocalCmd(args.profile,
                                                     args.environment)
                    /\ pc = "aborted" <=> ~last.ok
            /\ ~ready => clock >= PgTimeout
    /\ slept => (~ready /\ args.wait_seconds > 0)

C9_Witness ==
    /\ pc = "done"
    /\ ~ready /\ clock >= PgTimeout
    /\ slept

\* C10: a missing root .env, a missing settings template, a missing
\* composition document and a failing teardown command each leave every file
\* as it is, and main() goes on to the step that follows.
C10_TolerantSkips ==
    [][/\ (pc = "env" /\ ~rootEnv.exists)
            => (pc' = "secret" /\ wrote' = {} /\ UNCHANGED fsVars)
       /\ (pc = "secret" /\ ~settingsBase.exists)
            => /\ pc' = IF args.no_cap_adjust THEN "down" ELSE "cap"
               /\ wrote' = {} /\ UNCHANGED fsVars
       /\ (pc = "cap" /\ ~compose.exists)
            => (pc' = "down" /\ wrote' = {} /\ UNCHANGED fsVars)
       /\ (pc = "down" /\ ~last'.ok)
            => (pc' = "up_supabase" /\ wrote' = {} /\ UNCHANGED fsVars)]_vars

C10_Witness ==
    /\ pc = "up_supabase"
    /\ last.kind = "down" /\ ~last.ok
    /\ ~rootEnv.exists /\ ~settingsBase.exists /\ ~compose.exists
    /\ "cap" \in Range(log)

-----------------------------------------------------------------------------
(* The Environment Merger called again and again on the same two files: the  *)
(* visits successive runs of main() pay to it.                               *)

MaxCalls == 2       \* calls of a component in one behaviour
MaxEnvLines == 2    \* lines of an environment file

\* the lines environment files are made of: entries of two keys, one of them
\* with two values, and a commented-out entry
EnvLines == {<<"A", "=", "1">>, <<"A", "=", "2">>, <<"B", "=", "1">>,
             <<"#", "A", "=", "1">>}

RECURSIVE EnvTexts(_)
EnvTexts(n) ==
    IF n = 0 THEN {<<>>}
    ELSE EnvTexts(n - 1)
           \cup {l \o <<NL>> \o t : l \in EnvLines, t \in EnvTexts(n - 1)}

\* the texts of at most n lines, the last line with or without its newline
EnvFileTexts(n) ==
    EnvTexts(n)
      \cup {SubSeq(t, 1, Len(t) - 1) :
              t \in {u \in EnvTexts(n) : Len(u) >= 2 /\ u[Len(u) - 1] # NL}}

\* the state every component specification starts the rest of the model in
Quiet ==
    /\ pc = "idle"
    /\ args = DefaultArgs
    /\ log = <<>>
    /\ last = NoCmd
    /\ clock = 0 /\ ready = FALSE /\ slept = FALSE
    /\ started = {}
    /\ wrote = {}
    /\ hist = <<>>
    /\ nsecrets = 0

EnvInit ==
    /\ Quiet
    /\ repo = FullRepo
    /\ rootEnv \in {Absent} \cup {File(t) : t \in EnvFileTexts(MaxEnvLines)}
    /\ destEnv \in {Absent} \cup {File(t) : t \in EnvFileTexts(MaxEnvLines)}
    /\ settingsBase = Absent
    /\ settings = Absent
    /\ compose = Absent
    /\ searxng = [running |-> FALSE, booted |-> FALSE]
    /\ orig = destEnv

\* prepare_supabase_env(root) is called
EnvCall ==
    /\ Len(hist) < MaxCalls
    /\ LET r == PrepareSupabaseEnv(rootEnv, destEnv)
       IN  /\ destEnv' = r.dest
           /\ wrote' = IF r.wrote THEN {"destEnv"} ELSE {}
           /\ hist' = Append(hist, [before |-> destEnv, wrote |-> r.wrote])
    /\ UNCHANGED <<pc, args, log, last, repo, rootEnv, settingsBase, settings,
                   compose, searxng, probeVars, started, orig, nsecrets>>

EnvNext == EnvCall

EnvSpec == EnvInit /\ [][EnvNext]_vars

IsPrefix(s, t) == Len(s) <= Len(t) /\ SubSeq(t, 1, Len(s)) = s

\* C6: a call that finds the destination present only appends to it: the
\* previous text is a prefix of the new one, and every key the destination
\* defined keeps the value the destination gave it, whatever the source says.
C6_AppendOnly ==
    (hist # <<>> /\ hist[Len(hist)].before.exists)
      => LET old == hist[Len(hist)].before.text
         IN  /\ destEnv.exists
             /\ IsPrefix(old, destEnv.text)
             /\ \A k \in DOMAIN Existing(old) :
                  /\ k \in DOMAIN Existing(destEnv.text)
                  /\ Existing(destEnv.text)[k] = Existing(old)[k]

\* the last call appended to a destination defining a key of the source with
\* another value
C6_Witness ==
    /\ hist # <<>>
    /\ hist[Len(hist)].before.exists /\ hist[Len(hist)].wrote
    /\ rootEnv.exists
    /\ \E k \in DOMAIN Existing(hist[Len(hist)].before.text) :
         /\ k \in DOMAIN Existing(rootEnv.text)
         /\ Existing(rootEnv.text)[k] # Existing(hist[Len(hist)].before.text)[k]

\* C7: every call after the first, the source being the same, writes nothing
\* and leaves the destination as the call before left it.
C7_MergeIdempotent ==
    \A i \in 2..Len(hist) :
      /\ ~hist[i].wrote
      /\ (IF i = Len(hist) THEN destEnv ELSE hist[i + 1].before) = hist[i].before

\* a second call after a first one that appended to the destination
C7_Witness ==
    /\ Len(hist) >= 2
    /\ hist[1].before.exists /\ hist[1].wrote

\* a second call after a first one that copied the source
C7_WitnessCopy ==
    /\ Len(hist) >= 2
    /\ ~hist[1].before.exists /\ hist[1].wrote

-----------------------------------------------------------------------------
(* The Secret Provisioner called again and again, the working settings file  *)
(* never removed.                                                            *)

MaxPieces == 3      \* pieces a settings text is made of

\* the pieces of a settings text: the placeholder, its first and its last
\* character alone, and another character
SettingsPieces == {Placeholder, <<Placeholder[1]>>,
                   <<Placeholder[Len(Placeholder)]>>, <<"x">>}

RECURSIVE SettingsTexts(_)
SettingsTexts(n) ==
    IF n = 0 THEN {<<>>}
    ELSE SettingsTexts(n - 1)
           \cup {q \o t : q \in SettingsPieces, t \in SettingsTexts(n - 1)}

\* a template of any text with no working file yet, or a working file of any
\* text with the template present or absent (its text is then never read)
SecretInit ==
    /\ Quiet
    /\ repo = FullRepo
    /\ rootEnv = Absent
    /\ destEnv = Absent
    /\ \/ /\ settings = Absent
          /\ settingsBase \in
               {Absent} \cup {File(t) : t \in SettingsTexts(MaxPieces)}
       \/ /\ settings \in {File(t) : t \in SettingsTexts(MaxPieces)}
          /\ settingsBase \in {Absent, File(<<>>)}
    /\ compose = Absent
    /\ searxng = [running |-> FALSE, booted |-> FALSE]
    /\ orig = settings

\* generate_searxng_secret_key(root) is called; token_hex returns any secret
SecretCall ==
    /\ Len(hist) < MaxCalls
    /\ \E secret \in Secrets :
         LET r == GenerateSecret(settingsBase, settings, secret)
         IN  /\ settings' = r.settings
             /\ wrote' = IF r.created \/ r.replaced THEN {"settings"} ELSE {}
             /\ nsecrets' = nsecrets + (IF r.replaced THEN 1 ELSE 0)
             /\ hist' = Append(hist,
                          [before |-> IF settings.exists \/ ~settingsBase.exists
                                      THEN settings ELSE settingsBase,
                           replaced |-> r.replaced, secret |-> secret])
    /\ UNCHANGED <<pc, args, log, last, repo, rootEnv, destEnv, settingsBase,
                   compose, searxng, probeVars, started, orig>>

SecretNext == SecretCall

SecretSpec == SecretInit /\ [][SecretNext]_vars

\* the working file as call i left it
SettingsAfter(i) == IF i = Len(hist) THEN settings ELSE hist[i + 1].before

\* C8: over the calls of a behaviour the placeholder is substituted at most
\* once; the substituting call replaces every occurrence by the one value it
\* generated and changes nothing else, leaving no placeholder; every later
\* call leaves the file as it is.
C8_SecretOnce ==
    /\ nsecrets <= 1
    /\ \A i \in 1..Len(hist) :
         hist[i].replaced
           => /\ ~Contains(SettingsAfter(i).text, Placeholder)
              /\ Replace(SettingsAfter(i).text, hist[i].secret, Placeholder)
                   = hist[i].before.text
              /\ \A j \in (i + 1)..Len(hist) :
                   ~hist[j].replaced /\ SettingsAfter(j) = SettingsAfter(i)

\* a call substituted the placeholder, which occurred twice, and another call
\* followed
C8_Witness ==
    /\ Len(hist) >= 2
    /\ hist[1].replaced
    /\ hist[1].before.text = Placeholder \o Placeholder

\* C18 as stated: once the provisioner has been called, a working settings
\* file that exists holds no placeholder, the template present or absent.
C18_NoPlaceholderLeft ==
    (hist # <<>> /\ settings.exists)
      => ~Contains(settings.text, Placeholder)

\* C18, amended: once the provisioner has been called with the template
\* present, the working settings file exists and holds no placeholder, whether
\* or not it existed before; called with the template absent, it leaves the
\* working file as it was, present or absent, placeholder included.
C18_NoPlaceholderWithTemplate ==
    hist # <<>>
      => IF settingsBase.exists
         THEN settings.exists /\ ~Contains(settings.text, Placeholder)
         ELSE settings = orig

\* the template holds the placeholder, there was no working file, and the
\* call created one
C18_Witness ==
    /\ Len(hist) = 1
    /\ settingsBase.exists /\ Contains(settingsBase.text, Placeholder)
    /\ ~orig.exists
    /\ settings.exists /\ hist[1].replaced

-----------------------------------------------------------------------------
(* The Capability Toggle Manager called again and again on the composition   *)
(* document, the searxng container being started, bootstrapped and stopped   *)
(* between the calls.                                                        *)

MaxIndent == 2      \* spaces a declaration is indented by

Spaces(n) == [i \in 1..n |-> SP]

\* the guarded declaration as a document may hold it, indented by n: active on
\* one line, active with the list item on the following line, disabled with
\* the marker, commented out by hand
Declarations(n) ==
    {Spaces(n) \o <<CAPDROP, SP, ALL>>,
     Spaces(n) \o <<CAPDROP, NL>> \o Spaces(n) \o <<SP, SP, ALL>>,
     Spaces(n) \o DisabledText,
     Spaces(n) \o <<"#", SP, CAPDROP, SP, ALL>>}

\* what precedes the declaration: nothing, a line, a line and an empty line,
\* an empty comment line
Before == {<<>>, <<"x", NL>>, <<"x", NL, NL>>, <<"#", NL>>}

\* another line and the active declaration of another service
Sibling == <<NL, "x", NL, SP, CAPDROP, SP, ALL, NL>>

\* what follows it: nothing, the newline, another line, the declaration of
\* another service
After == {<<>>, <<NL>>, <<NL, "x", NL>>, Sibling}

ComposeTexts ==
    {b \o a : b \in Before, a \in After}
      \cup {b \o d \o a : b \in Before, a \in After,
                          d \in UNION {Declarations(n) : n \in 0..MaxIndent}}

ToggleInit ==
    /\ Quiet
    /\ repo = FullRepo
    /\ rootEnv = Absent
    /\ destEnv = Absent
    /\ settingsBase = Absent
    /\ settings = Absent
    /\ compose \in {File(t) : t \in ComposeTexts}
    /\ searxng \in [running : BOOLEAN, booted : BOOLEAN]
    /\ orig = compose

\* adjust_cap_drop_first_run(root) is called
ToggleCall ==
    /\ Len(hist) < MaxCalls
    /\ \E psOk \in BOOLEAN, execOk \in BOOLEAN :
         /\ CapAdjust(psOk, execOk)
         /\ hist' = Append(hist,
                      [before |-> compose,
                       first_run |-> FirstRun(PsLines(searxng, psOk),
                                              ProbeOut(searxng, execOk)),
                       modified |-> compose' # compose,
                       running |-> searxng.running,
                       booted |-> searxng.booted])
    /\ UNCHANGED <<pc, args, log, repo, rootEnv, destEnv, settingsBase,
                   settings, searxng, probeVars, started, orig, nsecrets>>

\* the stack is started (compose_up_local_ai of the run, or by hand)
StackUp ==
    /\ ~searxng.running
    /\ searxng' = [searxng EXCEPT !.running = TRUE]
    /\ UNCHANGED <<pc, args, log, last, repo, fsVars, probeVars, started, wrote,
                   histVars>>

\* the stack is stopped (compose_down of the run, or by hand)
StackDown ==
    /\ searxng.running
    /\ searxng' = [searxng EXCEPT !.running = FALSE]
    /\ UNCHANGED <<pc, args, log, last, repo, fsVars, probeVars, started, wrote,
                   histVars>>

\* the running searxng service completes its bootstrap, which creates the
\* marker file /etc/searxng/uwsgi.ini
Bootstrap ==
    /\ searxng.running /\ ~searxng.booted
    /\ searxng' = [searxng EXCEPT !.booted = TRUE]
    /\ UNCHANGED <<pc, args, log, last, repo, fsVars, probeVars, started, wrote,
                   histVars>>

ToggleNext == ToggleCall \/ StackUp \/ StackDown \/ Bootstrap

ToggleSpec == ToggleInit /\ [][ToggleNext]_vars

\* the document as call i left it
ComposeAfter(i) == IF i = Len(hist) THEN compose ELSE hist[i + 1].before

\* the explanatory marker the first-run rewrite adds after the declaration
MarkerText == <<SP, SP, "#", SP, MARK>>

StripMarker(text) == Replace(text, MarkerText, <<>>)

\* the declaration is in the active form and in no disabled form
ActiveForm(text) == ActiveSearch(text) /\ ~CommentedSearch(text)

\* C4: on a document whose declaration is in the active form, a first-run
\* call followed by a not-first-run call gives back the original document,
\* the explanatory marker apart.
C4_RoundTrip ==
    (/\ Len(hist) = 2
     /\ ActiveForm(orig.text)
     /\ hist[1].first_run /\ ~hist[2].first_run)
      => StripMarker(compose.text) = orig.text

\* C5: a declaration a first-run call disabled is active again after the next
\* call that finds the marker file in place, the container running or not.
C5_ReEnabled ==
    \A i \in 1..(Len(hist) - 1) :
      (hist[i].first_run /\ hist[i].modified /\ hist[i + 1].booted)
        => ActiveForm(ComposeAfter(i + 1).text)

\* the documents whose every declaration is active, on one line or two
ActiveDocs ==
    UNION {{b \o Spaces(n) \o d \o a :
              b \in Before, a \in After,
              d \in {<<CAPDROP, SP, ALL>>,
                     <<CAPDROP, NL>> \o Spaces(n) \o <<SP, SP, ALL>>}} :
           n \in 0..MaxIndent}

\* the documents whose one declaration is in the form the first-run rewrite
\* produces
DisabledDocs ==
    {b \o Spaces(n) \o DisabledText \o a :
       b \in Before, a \in After \ {Sibling}, n \in 0..MaxIndent}

\* the call that has just been appended to hist
Called == hist' # hist
ThisCall == hist'[Len(hist')]

\* C11: a call made with first-run true on a document whose declaration is
\* already disabled, or with first-run false on a document whose declaration
\* is already active, leaves the document as it is and writes no file.
C11_NoOpWhenMatching ==
    [][(/\ Called
        /\ \/ ThisCall.first_run /\ compose.text \in DisabledDocs
           \/ ~ThisCall.first_run /\ compose.text \in ActiveDocs)
         => (compose' = compose /\ wrote' = {})]_vars

\* the document's declaration is recognised by one pattern and not the other
ExactlyOne(text) == ActiveSearch(text) # CommentedSearch(text)

\* C12: when the document the calls started from held its declaration in one
\* of the two forms, and exactly one of the two patterns recognised it, then
\* after every sequence of calls, first-run or not in any order, exactly one
\* pattern recognises it still: never both, never neither.
C12_ExactlyOneForm ==
    (orig.text \in ActiveDocs \cup DisabledDocs /\ ExactlyOne(orig.text))
      => ExactlyOne(compose.text)

\* C14: a call treats the run as not-first-run only when the searxng
\* container was running and the marker file was in it; with no running
\* container, a failed listing, or a probe that fails or prints nothing, the
\* run is treated as first-run.
C14_ConservativeFirstRun ==
    \A i \in 1..Len(hist) :
      ~hist[i].first_run => (hist[i].running /\ hist[i].booted)

\* the documents whose one declaration was commented out by hand, without
\* the explanatory marker
HandCommentedDocs ==
    {b \o Spaces(n) \o <<"#", SP, CAPDROP, SP, ALL>> \o a :
       b \in Before, a \in After \ {Sibling}, n \in 0..MaxIndent}

\* C15: a not-first-run call rewrites to the active form only a declaration in
\* the disabled form with the marker; it leaves unchanged a document whose
\* declaration is commented out without the marker.
C15_OnlyMarkerForm ==
    [][(/\ Called /\ ~ThisCall.first_run /\ ThisCall.booted
        /\ compose.text \in HandCommentedDocs)
         => compose' = compose]_vars

-----------------------------------------------------------------------------
(* Successive runs of main() from the teardown on: the steps that issue the  *)
(* composition commands, each run with its own environment and profile.      *)

ComposeInit ==
    /\ Quiet
    /\ repo = FullRepo
    /\ rootEnv = Absent
    /\ destEnv = Absent
    /\ settingsBase = Absent
    /\ settings = Absent
    /\ compose = Absent
    /\ searxng = [running |-> FALSE, booted |-> FALSE]
    /\ orig = Absent

\* main() is run (again) with some --profile and --environment and has reached
\* line 239
Rerun ==
    /\ pc \in {"idle", "done", "aborted"}
    /\ Len(hist) < MaxCalls
    /\ \E p \in Profiles, e \in Environments :
         /\ args' = [DefaultArgs EXCEPT !.profile = p, !.environment = e]
         /\ hist' = Append(hist, [profile |-> p, environment |-> e])
    /\ pc' = "down"
    /\ log' = <<>>
    /\ last' = NoCmd
    /\ clock' = 0 /\ ready' = FALSE /\ slept' = FALSE
    /\ wrote' = {}
    /\ UNCHANGED <<repo, fsVars, searxng, started, orig, nsecrets>>

ComposeNext ==
    \/ Rerun
    \/ DownStep
    \/ UpSupabaseStep
    \/ ProbeConnectFail
    \/ ProbeConnectOk
    \/ ProbeTimedOut
    \/ UpLocalStep

ComposeSpec == ComposeInit /\ [][ComposeNext]_vars

\* C3: the teardown command of a run references every composition file a
\* startup command of an earlier run (or of this one) was given, whatever the
\* environment and profile of either run.
C3_TeardownCovers ==
    last.kind = "down" => started \subseteq FilesOf(last.argv)

\* the composition files of an argument list in the order they are given
RECURSIVE FileSeq(_)
FileSeq(cmd) ==
    IF Len(cmd) < 2 THEN <<>>
    ELSE IF cmd[1] = "-f" THEN <<cmd[2]>> \o FileSeq(SubSeq(cmd, 3, Len(cmd)))
    ELSE FileSeq(Tail(cmd))

\* the base file an override file extends
BaseOf(f) ==
    CASE f = PublicSupabaseOverride -> SupabaseFile
      [] f \in {PrivateOverride, PublicOverride} -> LocalFile
      [] OTHER -> f

\* every override of the list comes after its base file
BaseFirst(files) ==
    \A j \in 1..Len(files) :
      BaseOf(files[j]) # files[j]
        => \E i \in 1..(j - 1) : files[i] = BaseOf(files[j])

\* the argument that follows --profile, "none" when there is no such flag
ProfileOf(cmd) ==
    IF \E i \in 1..(Len(cmd) - 1) : cmd[i] = "--profile"
    THEN cmd[(CHOOSE i \in 1..(Len(cmd) - 1) : cmd[i] = "--profile") + 1]
    ELSE "none"

\* C13: the dependency startup references the dependency composition file,
\* followed by the dependency's public override exactly when the environment
\* is public, and carries no profile filter; the local startup references the
\* local composition file followed by one override, the private one for
\* private and the generic public one for public, and carries the profile
\* filter exactly when the profile is not "none"; in every composition command
\* a base file precedes its overrides.
C13_StartupCommands ==
    /\ last.kind = "up_supabase"
         => /\ FileSeq(last.argv)
                 = IF args.environment = "public"
                   THEN <<SupabaseFile, PublicSupabaseOverride>>
                   ELSE <<SupabaseFile>>
            /\ "--profile" \notin Range(last.argv)
    /\ last.kind = "up_local"
         => /\ FileSeq(last.argv)
                 = <<LocalFile, IF args.environment = "private"
                                THEN PrivateOverride ELSE PublicOverride>>
            /\ ("--profile" \in Range(last.argv)) <=> (args.profile # "none")
            /\ ProfileOf(last.argv) = args.profile
    /\ last.kind \in {"down", "up_supabase", "up_local"}
         => BaseFirst(FileSeq(last.argv))

\* the local startup of a public run without a profile has been issued
C13_Witness ==
    /\ last.kind = "up_local" /\ last.ok
    /\ args.environment = "public" /\ args.profile = "none"
    /\ FileSeq(last.argv) = <<LocalFile, PublicOverride>>

-----------------------------------------------------------------------------
(* wait_for_postgres called with one timeout after another, the port         *)
(* reachable at some attempt or never.                                       *)

ProbeInit ==
    /\ Quiet
    /\ repo = FullRepo
    /\ rootEnv = Absent
    /\ destEnv = Absent
    /\ settingsBase = Absent
    /\ settings = Absent
    /\ compose = Absent
    /\ searxng = [running |-> FALSE, booted |-> FALSE]
    /\ orig = Absent

\* wait_for_postgres(timeout=t) is called: line 208
ProbeStart ==
    /\ pc # "probe"
    /\ Len(hist) < MaxCalls
    /\ \E t \in 0..PgTimeout, w \in 0..MaxWait :
         /\ hist' = Append(hist, [timeout |-> t])
         /\ args' = [DefaultArgs EXCEPT !.wait_seconds = w]
    /\ pc' = "probe"
    /\ log' = <<>>
    /\ clock' = 0 /\ ready' = FALSE /\ slept' = FALSE
    /\ wrote' = {}
    /\ UNCHANGED <<last, repo, fsVars, searxng, started, orig, nsecrets>>

\* the timeout of the call in progress, or of the last one
Timeout == hist[Len(hist)].timeout

ProbeLoopFail == hist # <<>> /\ ProbeConnectFailAt(Timeout) /\ UNCHANGED hist
ProbeLoopOk == hist # <<>> /\ ProbeConnectOkAt(Timeout) /\ UNCHANGED hist
ProbeLoopEnd == hist # <<>> /\ ProbeTimedOutAt(Timeout) /\ UNCHANGED hist

ProbeNext == ProbeStart \/ ProbeLoopFail \/ ProbeLoopOk \/ ProbeLoopEnd

\* a call of wait_for_postgres that has begun goes on executing
ProbeSpec ==
    /\ ProbeInit /\ [][ProbeNext]_vars
    /\ WF_vars(ProbeLoopFail \/ ProbeLoopOk \/ ProbeLoopEnd)

\* wait_for_postgres has returned
Returned == hist # <<>> /\ pc # "probe"

\* C16 as stated: wait_for_postgres returns no later than timeout plus one
\* poll interval after it started.
C16_WithinPollInterval ==
    Returned => clock <= Timeout + PollInterval

\* C16, amended: every call of wait_for_postgres returns; with a timeout of
\* zero it returns at once, and otherwise earlier than timeout plus the connect
\* timeout plus one poll interval after it started.
C16_Terminates ==
    /\ [](Returned =>
            IF Timeout > 0
            THEN clock < Timeout + ConnectTimeout + PollInterval
            ELSE clock = 0 /\ ~ready)
    /\ (pc = "probe") ~> (pc # "probe")

\* a call that found the port closed at every attempt has returned as late as
\* it can
C16_Witness ==
    /\ Returned /\ ~ready
    /\ Timeout = PgTimeout
    /\ clock = Timeout + ConnectTimeout + PollInterval - 1

-----------------------------------------------------------------------------
(* clone_or_update_supabase called by one run of main() after another, some  *)
(* of them aborted on the way.                                               *)

SyncInit ==
    /\ Quiet
    /\ repo \in {NoRepo, FullRepo}
    /\ rootEnv = Absent
    /\ destEnv = Absent
    /\ settingsBase = Absent
    /\ settings = Absent
    /\ compose = Absent
    /\ searxng = [running |-> FALSE, booted |-> FALSE]
    /\ orig = Absent

\* main() is run (again) and has reached line 233
SyncStart ==
    /\ pc \in {"idle", "env", "aborted"}
    /\ Len(hist) < MaxCalls
    /\ hist' = Append(hist, [before |-> repo])
    /\ pc' = "sync"
    /\ log' = <<>>
    /\ last' = NoCmd
    /\ wrote' = {}
    /\ UNCHANGED <<args, repo, fsVars, searxng, probeVars, started, orig,
                   nsecrets>>

\* after an aborted run the operator removes the supabase directory
RemoveCopy ==
    /\ pc = "aborted"
    /\ repo.exists
    /\ repo' = NoRepo
    /\ UNCHANGED <<pc, args, log, last, fsVars, searxng, probeVars, started,
                   wrote, histVars>>

SyncNext ==
    \/ SyncStart
    \/ RemoveCopy
    \/ GitClone
    \/ LsRemoteMaster
    \/ LsRemoteMain
    \/ SparseInit
    \/ SparseSet
    \/ GitCheckout
    \/ GitFetch
    \/ GitPull

SyncSpec == SyncInit /\ [][SyncNext]_vars

\* C17: when clone_or_update_supabase has returned without error, the working
\* copy exists, its sparse-checkout is initialised and set to docker, and a
\* branch is checked out, whatever the runs before did.
C17_SyncedCopy ==
    (hist # <<>> /\ pc = "env")
      => /\ repo.exists
         /\ repo.sparse_init /\ repo.sparse_set
         /\ repo.branch # "none"

=============================================================================
